---- MODULE Spec2Model ----
(***************************************************************************)
(* Web of Abstraction (src/app.py): the session store (a networkx DiGraph  *)
(* plus id_counter, root_id, current_id), its edit operations, the JSON     *)
(* export / import, and the page script that runs once per interaction.    *)
(*                                                                         *)
(* A Python dict is a TLA+ function whose DOMAIN is the set of keys that   *)
(* are present, so a missing key is a key outside the DOMAIN.  A text is a *)
(* sequence of one-character strings.  An operation that can raise returns *)
(* a record [st, exc]: the session state at the moment it returned or      *)
(* raised, and the exception ("none" when it returned normally).           *)
(***************************************************************************)
EXTENDS Integers, Sequences, FiniteSets, TLC

VARIABLES G, id_counter, root_id, current_id, last, issued, add_calls, imported,
          ui, run

vars == <<G, id_counter, root_id, current_id, last, issued, add_calls, imported,
          ui, run>>

\* ------------------------------------------------------------------ bounds
\* add_node runs only while id_counter is below MaxAdds.
MaxAdds == 3

\* On the page, add_node runs only while id_counter is below MaxPageAdds.
MaxPageAdds == 2

\* ------------------------------------------------------------- Python values
\* Python's None, as a pointer value; node ids are natural numbers.
None == -1

\* s.strip() for a text s: leading and trailing blanks removed.
RECURSIVE lstrip(_)
lstrip(s) ==
    IF s # <<>> /\ Head(s) = " " THEN lstrip(Tail(s)) ELSE s

RECURSIVE rstrip(_)
rstrip(s) ==
    IF s # <<>> /\ s[Len(s)] = " " THEN rstrip(SubSeq(s, 1, Len(s) - 1)) ELSE s

strip(s) == rstrip(lstrip(s))

\* The elements of a sequence.
Range(s) == {s[i] : i \in 1..Len(s)}

\* The sequence s without the elements equal to x.
RECURSIVE Without(_, _)
Without(s, x) ==
    IF s = <<>> THEN <<>>
    ELSE IF Head(s) = x THEN Without(Tail(s), x)
    ELSE <<Head(s)>> \o Without(Tail(s), x)

\* ------------------------------------------------------------ nx.DiGraph
\* A DiGraph is [node, data, adj]: node is the insertion-ordered sequence of
\* node ids (the keys of G._node), data maps the nodes that carry a "data"
\* attribute to their NodeData, and adj maps every node to the
\* insertion-ordered sequence of its successors (G._adj).
NodeData(text, level) == [text |-> text, level |-> level]

EmptyGraph == [node |-> <<>>, data |-> <<>>, adj |-> <<>>]

has_node(g, n) == n \in Range(g.node)

has_data(g, n) == n \in DOMAIN g.data

number_of_nodes(g) == Len(g.node)

\* G.add_node(nid, data=nd): a new node goes last; an existing node keeps its
\* place and its edges and has its "data" attribute overwritten.
G_add_node(g, nid, nd) ==
    IF has_node(g, nid)
    THEN [g EXCEPT !.data = (nid :> nd) @@ g.data]
    ELSE [node |-> Append(g.node, nid),
          data |-> (nid :> nd) @@ g.data,
          adj  |-> (nid :> <<>>) @@ g.adj]

\* What G.add_edge does to an endpoint that is not a node yet: it becomes a
\* node with no attributes.
G_touch(g, n) ==
    IF has_node(g, n) THEN g
    ELSE [g EXCEPT !.node = Append(g.node, n), !.adj = (n :> <<>>) @@ g.adj]

\* G_add_edge as it would be if a new successor were recorded before the
\* successors u already has.
G_add_edge_prepend(g, u, v) ==
    LET g2 == G_touch(G_touch(g, u), v)
    IN  IF v \in Range(g2.adj[u]) THEN g2
        ELSE [g2 EXCEPT !.adj[u] = <<v>> \o g2.adj[u]]

\* G.add_edge(u, v): both endpoints are made nodes, then v is recorded as a
\* successor of u unless it already is one.
G_add_edge(g, u, v) ==
    LET g2 == G_touch(G_touch(g, u), v)
    IN  IF v \in Range(g2.adj[u]) THEN g2
        ELSE [g2 EXCEPT !.adj[u] = Append(g2.adj[u], v)]

\* G_remove_node as it would be if only the out-edges of n were dropped: the
\* edges into n stay behind.
G_remove_node_out_edges_only(g, n) ==
    LET keep == Range(g.node) \ {n}
    IN  [node |-> Without(g.node, n),
         data |-> [m \in (DOMAIN g.data) \ {n} |-> g.data[m]],
         adj  |-> [m \in keep |-> g.adj[m]]]

\* G.remove_node(n) for a node n: n goes, with every edge from or to it.
G_remove_node(g, n) ==
    LET keep == Range(g.node) \ {n}
    IN  [node |-> Without(g.node, n),
         data |-> [m \in (DOMAIN g.data) \ {n} |-> g.data[m]],
         adj  |-> [m \in keep |-> Without(g.adj[m], n)]]

\* list(G.edges): for every node in insertion order, its out-edges in the
\* order its successors were recorded.
RECURSIVE EdgesFrom(_, _)
EdgesFrom(u, succs) ==
    IF succs = <<>> THEN <<>>
    ELSE <<(<<u, Head(succs)>>)>> \o EdgesFrom(u, Tail(succs))

RECURSIVE EdgesOf(_, _)
EdgesOf(g, ns) ==
    IF ns = <<>> THEN <<>>
    ELSE EdgesFrom(Head(ns), g.adj[Head(ns)]) \o EdgesOf(g, Tail(ns))

G_edges(g) == EdgesOf(g, g.node)

\* ---------------------------------------------------------- session state
\* st.session_state, as one value.
Session(g, idc, root, cur) ==
    [G |-> g, id_counter |-> idc, root_id |-> root, current_id |-> cur]

SS == Session(G, id_counter, root_id, current_id)

init_state == Session(EmptyGraph, 0, None, None)

Ok(s) == [st |-> s, exc |-> "none"]

Raise(s, e) == [st |-> s, exc |-> e]

\* add_node as it would be if the next id were recomputed from the number of
\* nodes rather than counted up.
add_node_recount(s, text, level) ==
    LET g1 == G_add_node(s.G, s.id_counter, NodeData(text, level))
    IN  [s EXCEPT !.id_counter = number_of_nodes(g1), !.G = g1]

\* add_node(text, level): the state after it; the id it returns is the
\* id_counter it was called with.
add_node(s, text, level) ==
    [s EXCEPT !.id_counter = s.id_counter + 1,
              !.G = G_add_node(s.G, s.id_counter, NodeData(text, level))]

set_root(s, text) ==
    LET nid == s.id_counter
    IN  [add_node(s, text, 0) EXCEPT !.root_id = nid, !.current_id = nid]

\* add_above as it would be if the node were created before cur_id is looked
\* up: a failed lookup has already consumed an id and added a node.
add_above_lookup_last(s, cur_id, text, move_to_new) ==
    IF ~has_data(s.G, cur_id) THEN Raise(add_node(s, text, 0), "KeyError")
    ELSE LET cur_level == s.G.data[cur_id].level
             new_id    == s.id_counter
             s1        == add_node(s, text, cur_level + 1)
             s2        == [s1 EXCEPT !.G = G_add_edge(s1.G, new_id, cur_id)]
         IN  Ok(IF move_to_new THEN [s2 EXCEPT !.current_id = new_id] ELSE s2)

\* add_above as it would be if the edge ran from cur_id to the new node.
add_above_edge_reversed(s, cur_id, text, move_to_new) ==
    IF ~has_data(s.G, cur_id) THEN Raise(s, "KeyError")
    ELSE LET cur_level == s.G.data[cur_id].level
             new_id    == s.id_counter
             s1        == add_node(s, text, cur_level + 1)
             s2        == [s1 EXCEPT !.G = G_add_edge(s1.G, cur_id, new_id)]
         IN  Ok(IF move_to_new THEN [s2 EXCEPT !.current_id = new_id] ELSE s2)

\* G.nodes[cur_id]["data"] raises KeyError when cur_id is no node, and when
\* it is a node without a "data" attribute.
add_above(s, cur_id, text, move_to_new) ==
    IF ~has_data(s.G, cur_id) THEN Raise(s, "KeyError")
    ELSE LET cur_level == s.G.data[cur_id].level
             new_id    == s.id_counter
             s1        == add_node(s, text, cur_level + 1)
             s2        == [s1 EXCEPT !.G = G_add_edge(s1.G, new_id, cur_id)]
         IN  Ok(IF move_to_new THEN [s2 EXCEPT !.current_id = new_id] ELSE s2)

\* add_below as a copy of add_above with only the edge turned round: the
\* level still goes up.
add_below_level_up(s, cur_id, text, move_to_new) ==
    IF ~has_data(s.G, cur_id) THEN Raise(s, "KeyError")
    ELSE LET cur_level == s.G.data[cur_id].level
             new_id    == s.id_counter
             s1        == add_node(s, text, cur_level + 1)
             s2        == [s1 EXCEPT !.G = G_add_edge(s1.G, cur_id, new_id)]
         IN  Ok(IF move_to_new THEN [s2 EXCEPT !.current_id = new_id] ELSE s2)

add_below(s, cur_id, text, move_to_new) ==
    IF ~has_data(s.G, cur_id) THEN Raise(s, "KeyError")
    ELSE LET cur_level == s.G.data[cur_id].level
             new_id    == s.id_counter
             s1        == add_node(s, text, cur_level - 1)
             s2        == [s1 EXCEPT !.G = G_add_edge(s1.G, cur_id, new_id)]
         IN  Ok(IF move_to_new THEN [s2 EXCEPT !.current_id = new_id] ELSE s2)

\* first_or_none as it would be if the last remaining node were picked.
last_or_none(nodes) == IF nodes # <<>> THEN nodes[Len(nodes)] ELSE None

\* nodes[0] if nodes else None
first_or_none(nodes) == IF nodes # <<>> THEN nodes[1] ELSE None

\* delete_node as it would be without the repair of current_id.
delete_node_keeps_current(s, nid) ==
    IF has_node(s.G, nid)
    THEN LET s1 == [s EXCEPT !.G = G_remove_node(s.G, nid)]
         IN  Ok(IF s1.root_id = nid THEN [s1 EXCEPT !.root_id = None] ELSE s1)
    ELSE Ok(s)

\* delete_node as it would be if a deleted root were replaced by a remaining
\* node, the way current_id is.
delete_node_promotes_root(s, nid) ==
    IF has_node(s.G, nid)
    THEN LET g1 == G_remove_node(s.G, nid)
             s1 == [s EXCEPT !.G = g1]
             s2 == IF s1.current_id = nid
                   THEN [s1 EXCEPT !.current_id = first_or_none(g1.node)]
                   ELSE s1
         IN  Ok(IF s2.root_id = nid
                THEN [s2 EXCEPT !.root_id = first_or_none(g1.node)]
                ELSE s2)
    ELSE Ok(s)

\* delete_node as it would be without the has_node guard: G.remove_node
\* raises NetworkXError on an id that is no node.
delete_node_unguarded(s, nid) ==
    IF has_node(s.G, nid)
    THEN LET g1 == G_remove_node(s.G, nid)
             s1 == [s EXCEPT !.G = g1]
             s2 == IF s1.current_id = nid
                   THEN [s1 EXCEPT !.current_id = first_or_none(g1.node)]
                   ELSE s1
         IN  Ok(IF s2.root_id = nid THEN [s2 EXCEPT !.root_id = None] ELSE s2)
    ELSE Raise(s, "NetworkXError")

delete_node(s, nid) ==
    IF has_node(s.G, nid)
    THEN LET g1 == G_remove_node(s.G, nid)
             s1 == [s EXCEPT !.G = g1]
             s2 == IF s1.current_id = nid
                   THEN [s1 EXCEPT !.current_id = first_or_none(g1.node)]
                   ELSE s1
         IN  Ok(IF s2.root_id = nid THEN [s2 EXCEPT !.root_id = None] ELSE s2)
    ELSE Ok(s)

\* The "Save text" handler: G.nodes[current_id]["data"].text = edited_text.strip()
save_text(s, nid, edited_text) ==
    IF ~has_data(s.G, nid) THEN Raise(s, "KeyError")
    ELSE Ok([s EXCEPT !.G.data[nid].text = strip(edited_text)])

\* ------------------------------------------------------- export / import
\* d.get(key, default)
get(d, key, default) == IF key \in DOMAIN d THEN d[key] ELSE default

\* The node loop of to_dict over the node ids ns: one {"id", "text", "level"}
\* entry per node, in G.nodes order.
RECURSIVE NodeEntries(_, _)
NodeEntries(g, ns) ==
    IF ns = <<>> THEN <<>>
    ELSE <<[id    |-> Head(ns),
            text  |-> g.data[Head(ns)].text,
            level |-> g.data[Head(ns)].level]>> \o NodeEntries(g, Tail(ns))

\* The edge comprehension as it would be with source and target swapped.
RECURSIVE EdgeEntries_swapped(_)
EdgeEntries_swapped(es) ==
    IF es = <<>> THEN <<>>
    ELSE <<[source |-> Head(es)[2], target |-> Head(es)[1]]>>
         \o EdgeEntries_swapped(Tail(es))

\* The edge comprehension of to_dict.
RECURSIVE EdgeEntries(_)
EdgeEntries(es) ==
    IF es = <<>> THEN <<>>
    ELSE <<[source |-> Head(es)[1], target |-> Head(es)[2]]>>
         \o EdgeEntries(Tail(es))

\* to_dict(): [doc, exc].  It changes nothing; G.nodes[nid]["data"] raises
\* KeyError on a node that has no "data" attribute.
to_dict(s) ==
    IF \E n \in Range(s.G.node) : ~has_data(s.G, n)
    THEN [doc |-> <<>>, exc |-> "KeyError"]
    ELSE [doc |-> [nodes      |-> NodeEntries(s.G, s.G.node),
                   edges      |-> EdgeEntries(G_edges(s.G)),
                   current_id |-> s.current_id,
                   root_id    |-> s.root_id,
                   id_counter |-> s.id_counter],
          exc |-> "none"]

\* The node loop of load_from_dict over the entries ns.  n["id"] and
\* n["text"] raise KeyError on an entry without them, before the entry
\* touches the graph; int(n.get("level", 0)) is the level.
RECURSIVE load_nodes(_, _)
load_nodes(s, ns) ==
    IF ns = <<>> THEN Ok(s)
    ELSE LET n == Head(ns)
         IN  IF "id" \notin DOMAIN n \/ "text" \notin DOMAIN n
             THEN Raise(s, "KeyError")
             ELSE load_nodes(
                      [s EXCEPT !.G = G_add_node(s.G, n.id,
                                          NodeData(n.text, get(n, "level", 0)))],
                      Tail(ns))

\* The edge loop of load_from_dict over the entries es.
RECURSIVE load_edges(_, _)
load_edges(s, es) ==
    IF es = <<>> THEN Ok(s)
    ELSE LET e == Head(es)
         IN  IF "source" \notin DOMAIN e \/ "target" \notin DOMAIN e
             THEN Raise(s, "KeyError")
             ELSE load_edges([s EXCEPT !.G = G_add_edge(s.G, e.source, e.target)],
                             Tail(es))

\* load_from_dict(data) for a JSON object data: the graph is cleared and the
\* three scalars are overwritten first, then the nodes and the edges are
\* added one by one; an exception leaves what was done so far.
load_from_dict(s, data) ==
    LET s1 == Session(EmptyGraph,
                      get(data, "id_counter", 0),
                      get(data, "root_id", None),
                      get(data, "current_id", None))
        r  == load_nodes(s1, get(data, "nodes", <<>>))
    IN  IF r.exc # "none" THEN r
        ELSE load_edges(r.st, get(data, "edges", <<>>))

\* load_from_dict(data) for parsed JSON that is no object (a list, a number):
\* G.clear() runs, then data.get raises AttributeError.
load_from_nondict(s) == Raise([s EXCEPT !.G = EmptyGraph], "AttributeError")

\* The "Import JSON" handler on an uploaded file: json.load raises
\* JSONDecodeError on text that is not JSON, before the store is touched;
\* otherwise load_from_dict runs on the parsed value.  Every exception is
\* caught and reported (st.error); the store stays as the exception left it.
import_json(s, file) ==
    IF file.kind = "invalid" THEN Raise(s, "JSONDecodeError")
    ELSE IF file.kind = "array" THEN load_from_nondict(s)
    ELSE load_from_dict(s, file.data)

\* Export followed by import of the exported document.
round_trip(s) ==
    LET d == to_dict(s)
    IN  IF d.exc # "none" THEN Raise(s, d.exc) ELSE load_from_dict(s, d.doc)

\* --------------------------------------------------------- the page script
\* The script (lines 120-239) runs top to bottom once for every interaction
\* of the user with a widget.  A run reads the widgets: the button that was
\* pressed (click, "none" if the interaction pressed no button), the content
\* of the text boxes, the option picked in the "Current node" selectbox (pick,
\* None if the user did not touch it), and the file the uploader holds.

\* No file in the uploader (uploaded is None).
NoFile == [kind |-> "none"]

\* The "Current node" selectbox of a run that did not reach it.
NoWidget == [options |-> <<>>, index |-> 0, value |-> None]

\* The graph panel of a run that did not reach it.
NoRender == <<>>

\* The placeholder text "How might we ... ?" of a node added with an empty
\* text box.
HowMightWe == <<"q">>

\* The widgets of an interaction that presses and types nothing.
NoInput ==
    [click |-> "none", root_text |-> <<>>, edited_text |-> <<>>,
     typed |-> <<>>, pick |-> None, file |-> NoFile]

\* What json.load(uploaded) finds in the uploader: the file, when its buffer
\* is at the start, and nothing to parse (a JSONDecodeError, like text that
\* is not JSON) when an earlier run has read the buffer to its end.
held(file, readable) ==
    IF file = NoFile \/ readable THEN file ELSE [kind |-> "invalid"]

\* sorted(S) for a set of ids.
RECURSIVE sorted(_)
sorted(S) ==
    IF S = {} THEN <<>>
    ELSE LET m == CHOOSE x \in S : \A y \in S : x <= y
         IN  <<m>> \o sorted(S \ {m})

list_nodes_sorted(s) == sorted(Range(s.G.node))

\* all_nodes.index(x), counted from 1.
Index(seq, x) == CHOOSE i \in 1..Len(seq) : seq[i] = x

\* One option of the selectbox: the pair (node_display(nid), nid), the label
\* "[nid] L<level>: <preview>" kept as its three parts.  Every text of the
\* model is shorter than 80 characters, so the preview is the text.
node_display(g, nid) ==
    [nid |-> nid, level |-> g.data[nid].level, preview |-> g.data[nid].text]

\* st.selectbox(options, index) for the widget w of the run before and the
\* user's pick: a selectbox with the same options and the same default index
\* is the same widget and returns the pick, or else the value it had; any
\* other is a new widget and returns options[index].  The value is kept as
\* chosen[1], the node id.
selectbox(w, options, index, pick) ==
    [options |-> options, index |-> index,
     value   |-> IF w.options = options /\ w.index = index
                 THEN IF pick # None THEN pick ELSE w.value
                 ELSE options[index].nid]

\* st.session_state.current_id = current_id as it would be if the script did
\* not write the selectbox's value back.
select_current_dropped(s, chosen) == s

\* current_id = chosen[1]; st.session_state.current_id = current_id
select_current(s, chosen) == [s EXCEPT !.current_id = chosen]

\* new_above.strip() if new_above.strip() else "How might we ... ?"
new_text(typed) == IF strip(typed) # <<>> THEN strip(typed) ELSE HowMightWe

\* The node loop of the graph panel: one styled node per node of G, in
\* G.nodes order.
project(s) ==
    [i \in 1..Len(s.G.node) |->
        [id          |-> s.G.node[i],
         borderWidth |-> IF s.G.node[i] = s.current_id THEN 3 ELSE 1]]

\* The two columns (lines 161-237), entered with the outcome b of the sidebar.
\* "Add ABOVE", "Add BELOW" and "Delete current node" end the run with
\* st.experimental_rerun() before the graph panel.
main_panel(b, w, in) ==
    LET s         == b.st
        all_nodes == list_nodes_sorted(s)
        options   == [i \in 1..Len(all_nodes) |-> node_display(s.G, all_nodes[i])]
        index     == IF s.current_id \in Range(all_nodes)
                     THEN Index(all_nodes, s.current_id) ELSE 1
        sel       == selectbox(w, options, index, in.pick)
        cur       == sel.value
        s1        == select_current(s, cur)
        s2        == IF in.click = "save_text"
                     THEN save_text(s1, s1.current_id, in.edited_text).st ELSE s1
        c         == [b EXCEPT !.main_shown = TRUE, !.sel = sel]
    IN  IF in.click = "add_above"
        THEN [c EXCEPT !.st = add_above(s2, cur, new_text(in.typed), TRUE).st,
                       !.rerun = TRUE, !.added = s2.id_counter]
        ELSE IF in.click = "add_below"
        THEN [c EXCEPT !.st = add_below(s2, cur, new_text(in.typed), TRUE).st,
                       !.rerun = TRUE, !.added = s2.id_counter]
        ELSE IF in.click = "delete"
        THEN [c EXCEPT !.st = delete_node(s2, cur).st, !.rerun = TRUE]
        ELSE [c EXCEPT !.st = s2, !.render = project(s2)]

\* One run of the script on the session state s, the selectbox w of the run
\* before, and the widgets in.  The result is the session state the run
\* leaves (st), whether it showed the "Create Root" control (root_shown) and
\* the main panel (main_shown), its selectbox (sel) and graph panel (render),
\* whether it ended in st.experimental_rerun() (rerun), the exception that
\* ended it (exc), the number of nodes set_root found in the store
\* (set_root_at, None if set_root did not run), and the id of the node that
\* add_above or add_below created (added, None if neither ran).
\*   129-134  "Create Root" is shown while root_id is None;
\*   136-143  a held file is loaded, every exception caught;
\*   145-146  a non-empty store is exported for the download button;
\*   157-159  st.stop() on an empty store.
script(s, w, in) ==
    LET create == /\ s.root_id = None
                  /\ in.click = "create_root"
                  /\ strip(in.root_text) # <<>>
        s1     == IF create THEN set_root(s, strip(in.root_text)) ELSE s
        s2     == IF in.file = NoFile THEN s1 ELSE import_json(s1, in.file).st
        ex     == IF number_of_nodes(s2.G) > 0 THEN to_dict(s2).exc ELSE "none"
        b      == [st          |-> s2,
                   root_shown  |-> s.root_id = None,
                   main_shown  |-> FALSE,
                   sel         |-> NoWidget,
                   render      |-> NoRender,
                   rerun       |-> FALSE,
                   exc         |-> ex,
                   set_root_at |-> IF create THEN number_of_nodes(s.G) ELSE None,
                   added       |-> None]
    IN  IF ex # "none" \/ number_of_nodes(s2.G) = 0 THEN b
        ELSE main_panel(b, w, in)

\* ------------------------------------------------------------------ inputs
\* The node ids an operation is called with: every id add_node can issue
\* within the bound, and one more that never names a node.
NodeIds == 0..MaxAdds

\* The text given to set_root, add_above and add_below.
NewTexts == {<<"q">>}

\* The content of the "Edit text" box when "Save text" is pressed.
EditTexts == {<<" ", "r", " ">>}

\* Node entries of uploaded documents.
N0 == [id |-> 0, text |-> <<"q">>, level |-> 0]

N1 == [id |-> 1, text |-> <<"q">>, level |-> 1]

\* The JSON objects an uploaded file can hold:
\*   the empty object;
\*   a document as to_dict writes it;
\*   nodes out of id order, one without "level";
\*   an edge to a node that is not listed, a current_id that is that node, a
\*     null root_id;
\*   a current_id that names no node at all;
\*   nodes only, every scalar key missing;
\*   a node entry without "id" after a complete entry;
\*   an edge entry without "target" after the nodes.
Docs ==
    { <<>>,
      [nodes |-> <<N0, N1>>, edges |-> <<[source |-> 1, target |-> 0]>>,
       current_id |-> 1, root_id |-> 0, id_counter |-> 2],
      [nodes |-> <<[id |-> 1, text |-> <<"r">>], N0>>,
       edges |-> <<[source |-> 1, target |-> 0]>>,
       current_id |-> 1, root_id |-> 0, id_counter |-> 2],
      [nodes |-> <<N1, N0>>, edges |-> <<[source |-> 0, target |-> 2]>>,
       current_id |-> 2, root_id |-> None, id_counter |-> 2],
      [nodes |-> <<N0, N1>>, edges |-> <<>>,
       current_id |-> 2, root_id |-> 0, id_counter |-> 2],
      [nodes |-> <<N0>>],
      [nodes |-> <<N0, [text |-> <<"q">>]>>, edges |-> <<>>,
       current_id |-> 0, root_id |-> 0, id_counter |-> 1],
      [nodes |-> <<N0, N1>>, edges |-> <<[source |-> 1]>>,
       current_id |-> 1, root_id |-> 0, id_counter |-> 2] }

\* An uploaded file: text that is not JSON, JSON that is not an object, or a
\* JSON object.
Files ==
    {[kind |-> "invalid"], [kind |-> "array"]}
    \cup {[kind |-> "object", data |-> d] : d \in Docs}

\* ----------------------------------------------------------------- actions
\* History variables.
\*   last: the operation of the latest step: its name, the node id it was
\*     called with (None when it takes none), the exception it raised ("none"
\*     if it returned), and, from the state it was called in, whether that id
\*     was a node (had) and the values of current_id (cur) and root_id (root).
\*   issued, add_calls: the ids add_node has returned and how many times it
\*     has been called, since the store was created or last replaced by
\*     load_from_dict.
\*   imported: load_from_dict has run on this session's store.
Called(op, nid, exc) ==
    [op |-> op, nid |-> nid, exc |-> exc,
     had |-> has_node(G, nid), cur |-> current_id, root |-> root_id]

Commit(s) ==
    /\ G' = s.G
    /\ id_counter' = s.id_counter
    /\ root_id' = s.root_id
    /\ current_id' = s.current_id

\* The page, as the latest run of the script left it.
\*   ui: the file the uploader holds (uploaded), whether a rerun finds the
\*     held file's buffer at the start again (fresh: the framework hands the
\*     script either a new buffer on every run or the buffer the run before
\*     has read to its end), whether the "Create Root" control and the main
\*     panel are on the page, the selectbox and the graph panel.
\*   run: of the latest interaction, the exception that ended the script
\*     (exc), the number of nodes set_root found in the store (set_root_at,
\*     None if it did not run), and the id of the node that "Add ABOVE" or
\*     "Add BELOW" created (added, None if neither ran).
\* The state after construction is the page after the first run of the
\* script, on a new session.
page0(fresh) ==
    [uploaded |-> NoFile, fresh |-> fresh, root_shown |-> TRUE,
     main_shown |-> FALSE, sel |-> NoWidget, render |-> NoRender]

run0 == [exc |-> "none", set_root_at |-> None, added |-> None]

\* One call of add_node, returning the id_counter of the state it ran in.
Issue ==
    /\ issued' = issued \cup {id_counter}
    /\ add_calls' = add_calls + 1

Init ==
    /\ G = init_state.G
    /\ id_counter = init_state.id_counter
    /\ root_id = init_state.root_id
    /\ current_id = init_state.current_id
    /\ last = [op |-> "init", nid |-> None, exc |-> "none",
               had |-> FALSE, cur |-> None, root |-> None]
    /\ issued = {}
    /\ add_calls = 0
    /\ imported = FALSE
    /\ ui = page0(TRUE)
    /\ run = run0

\* The "Create Root" handler's call.
SetRoot(text) ==
    /\ id_counter < MaxAdds
    /\ Commit(set_root(SS, text))
    /\ Issue
    /\ last' = Called("set_root", None, "none")
    /\ UNCHANGED <<imported, ui, run>>

\* add_above(c, text), move_to_new left at True as every call site has it.
AddAbove(c, text) ==
    /\ id_counter < MaxAdds
    /\ LET r == add_above(SS, c, text, TRUE)
       IN  /\ Commit(r.st)
           /\ IF r.exc = "none" THEN Issue ELSE UNCHANGED <<issued, add_calls>>
           /\ last' = Called("add_above", c, r.exc)
    /\ UNCHANGED <<imported, ui, run>>

AddBelow(c, text) ==
    /\ id_counter < MaxAdds
    /\ LET r == add_below(SS, c, text, TRUE)
       IN  /\ Commit(r.st)
           /\ IF r.exc = "none" THEN Issue ELSE UNCHANGED <<issued, add_calls>>
           /\ last' = Called("add_below", c, r.exc)
    /\ UNCHANGED <<imported, ui, run>>

DeleteNode(nid) ==
    /\ LET r == delete_node(SS, nid)
       IN  /\ Commit(r.st)
           /\ last' = Called("delete_node", nid, r.exc)
    /\ UNCHANGED <<issued, add_calls, imported, ui, run>>

SaveText(nid, edited_text) ==
    /\ LET r == save_text(SS, nid, edited_text)
       IN  /\ Commit(r.st)
           /\ last' = Called("save_text", nid, r.exc)
    /\ UNCHANGED <<issued, add_calls, imported, ui, run>>

RoundTrip ==
    /\ LET r == round_trip(SS)
       IN  /\ Commit(r.st)
           /\ last' = Called("round_trip", None, r.exc)
    /\ UNCHANGED <<issued, add_calls, imported, ui, run>>

Import(file) ==
    /\ LET r == import_json(SS, file)
       IN  /\ Commit(r.st)
           /\ last' = Called("import", None, r.exc)
    /\ IF file.kind = "invalid"
       THEN UNCHANGED <<issued, add_calls, imported>>
       ELSE issued' = {} /\ add_calls' = 0 /\ imported' = TRUE
    /\ UNCHANGED <<ui, run>>

\* The edit operations, on any node id, and export followed by import.
NextEdit ==
    \/ \E t \in NewTexts : SetRoot(t)
    \/ \E c \in NodeIds, t \in NewTexts : AddAbove(c, t)
    \/ \E c \in NodeIds, t \in NewTexts : AddBelow(c, t)
    \/ \E n \in NodeIds : DeleteNode(n)
    \/ \E n \in NodeIds, t \in EditTexts : SaveText(n, t)
    \/ RoundTrip

\* The edit operations and the import of any file.
Next ==
    \/ \E t \in NewTexts : SetRoot(t)
    \/ \E c \in NodeIds, t \in NewTexts : AddAbove(c, t)
    \/ \E c \in NodeIds, t \in NewTexts : AddBelow(c, t)
    \/ \E n \in NodeIds : DeleteNode(n)
    \/ \E n \in NodeIds, t \in EditTexts : SaveText(n, t)
    \/ RoundTrip
    \/ \E f \in Files : Import(f)

\* Stores built by edit operations alone.
SpecEdit == Init /\ [][NextEdit]_vars

\* Stores built by edit operations and imports.
Spec == Init /\ [][Next]_vars

\* ------------------------------------------------------- the page's actions
\* The content of the "Root question" box when "Create Root" is pressed.
RootTexts == {<<" ">>, <<"q", " ">>}

\* The content of the "New ABOVE" / "New BELOW" box when its button is
\* pressed.
TypedTexts == {<<" ">>, <<"q", " ">>}

\* The JSON objects a user drops into the uploader:
\*   nodes only, every scalar key missing;
\*   a document as to_dict writes it;
\*   a current_id that names no node;
\*   an edge to a node that is not listed.
PageDocs ==
    { [nodes |-> <<N0>>],
      [nodes |-> <<N0>>, edges |-> <<>>,
       current_id |-> 0, root_id |-> 0, id_counter |-> 1],
      [nodes |-> <<N0>>, edges |-> <<>>,
       current_id |-> 1, root_id |-> 0, id_counter |-> 1],
      [nodes |-> <<N0>>, edges |-> <<[source |-> 0, target |-> 1]>>,
       current_id |-> 0, root_id |-> 0, id_counter |-> 1] }

UIFiles == {[kind |-> "object", data |-> d] : d \in PageDocs}

InitUI ==
    /\ G = init_state.G
    /\ id_counter = init_state.id_counter
    /\ root_id = init_state.root_id
    /\ current_id = init_state.current_id
    /\ last = [op |-> "init", nid |-> None, exc |-> "none",
               had |-> FALSE, cur |-> None, root |-> None]
    /\ issued = {}
    /\ add_calls = 0
    /\ imported = FALSE
    /\ \E fresh \in BOOLEAN : ui = page0(fresh)
    /\ run = run0

\* One interaction: the script runs on the widgets in with the file in the
\* uploader, and once more, with no button pressed, when that run ends in
\* st.experimental_rerun().  The first run after an upload finds the buffer
\* at the start; later runs find it there only if the framework hands out a
\* new buffer (ui.fresh).  upload: the interaction puts the file into the
\* uploader.
Interact(in, file, upload) ==
    \E a \in {script(SS, ui.sel, [in EXCEPT !.file = held(file, upload \/ ui.fresh)])} :
    \E b \in {IF a.rerun
              THEN script(a.st, a.sel, [NoInput EXCEPT !.file = held(file, ui.fresh)])
              ELSE a} :
        /\ a.st.id_counter <= MaxPageAdds
        /\ Commit(b.st)
        /\ ui' = [uploaded |-> file, fresh |-> ui.fresh,
                  root_shown |-> b.root_shown, main_shown |-> b.main_shown,
                  sel |-> b.sel, render |-> b.render]
        /\ run' = [exc |-> b.exc, set_root_at |-> a.set_root_at,
                   added |-> a.added]
        /\ UNCHANGED <<last, issued, add_calls, imported>>

\* The user drops a file into the uploader.
Upload(file) ==
    /\ file # NoFile
    /\ Interact(NoInput, file, TRUE)

\* The user removes the file from the uploader.
RemoveFile ==
    /\ ui.uploaded # NoFile
    /\ Interact(NoInput, NoFile, FALSE)

\* The user presses "Create Root", which the latest run has shown.
ClickCreateRoot(root_text) ==
    /\ ui.root_shown
    /\ Interact([NoInput EXCEPT !.click = "create_root", !.root_text = root_text],
                ui.uploaded, FALSE)

\* The user picks the option of node nid in the selectbox.
Select(nid) ==
    /\ \E i \in DOMAIN ui.sel.options : ui.sel.options[i].nid = nid
    /\ nid # ui.sel.value
    /\ Interact([NoInput EXCEPT !.pick = nid], ui.uploaded, FALSE)

ClickSaveText(edited_text) ==
    /\ ui.main_shown
    /\ Interact([NoInput EXCEPT !.click = "save_text", !.edited_text = edited_text],
                ui.uploaded, FALSE)

ClickAddAbove(typed) ==
    /\ ui.main_shown
    /\ Interact([NoInput EXCEPT !.click = "add_above", !.typed = typed],
                ui.uploaded, FALSE)

ClickAddBelow(typed) ==
    /\ ui.main_shown
    /\ Interact([NoInput EXCEPT !.click = "add_below", !.typed = typed],
                ui.uploaded, FALSE)

\* The user ticks "Enable destructive action" and presses "Delete current
\* node".  The run that the tick causes is a Rerun.
ClickDelete ==
    /\ ui.main_shown
    /\ Interact([NoInput EXCEPT !.click = "delete"],
                ui.uploaded, FALSE)

\* Any other interaction with a widget the latest run has shown: typing into
\* a text box, ticking the checkbox.
Rerun ==
    /\ ui.root_shown \/ ui.main_shown
    /\ Interact(NoInput, ui.uploaded, FALSE)

NextUI ==
    \/ \E f \in UIFiles : Upload(f)
    \/ RemoveFile
    \/ \E t \in RootTexts : ClickCreateRoot(t)
    \/ \E n \in NodeIds : Select(n)
    \/ \E t \in EditTexts : ClickSaveText(t)
    \/ \E t \in TypedTexts : ClickAddAbove(t)
    \/ \E t \in TypedTexts : ClickAddBelow(t)
    \/ ClickDelete
    \/ Rerun

\* Sessions driven through the page.
SpecUI == InitUI /\ [][NextUI]_vars

\* ------------------------------------------------------------- properties
\* The node ids and the directed edges of a store, as sets.
NodeSet(g) == Range(g.node)

EdgeSet(g) == Range(G_edges(g))

\* The least element of a non-empty set of ids.
Min(S) == CHOOSE x \in S : \A y \in S : x <= y

\* The latest step was a call of op on a node id that was (was not) a node.
OnNode(op) == last.op = op /\ last.had

OffNode(op) == last.op = op /\ ~last.had

\* C1 -- Round trip: for every store reachable by the edit operations,
\* load_from_dict(to_dict(S)) returns normally and yields a store with the
\* same node ids, the same text and level per node, the same set of directed
\* edges, and the same current_id, root_id and id_counter as S.
C1_RoundTrip ==
    LET r == round_trip(SS)
    IN  /\ r.exc = "none"
        /\ NodeSet(r.st.G) = NodeSet(G)
        /\ \A n \in NodeSet(G) :
              /\ has_data(r.st.G, n)
              /\ r.st.G.data[n].text = G.data[n].text
              /\ r.st.G.data[n].level = G.data[n].level
        /\ EdgeSet(r.st.G) = EdgeSet(G)
        /\ r.st.current_id = current_id
        /\ r.st.root_id = root_id
        /\ r.st.id_counter = id_counter

\* A store that was exported and imported again after a node was deleted
\* (fewer nodes than issued ids), with an edge and an edited text in it.
C1_Witness ==
    /\ last.op = "round_trip" /\ last.exc = "none"
    /\ number_of_nodes(G) = 2 /\ id_counter = 3
    /\ EdgeSet(G) # {}
    /\ \E n \in NodeSet(G) : G.data[n].text = <<"r">>

\* C2 -- Id monotonicity: in every store reachable by the edit operations,
\* id_counter equals the number of add_node calls made so far, is strictly
\* greater than every id ever issued, and no id was issued twice (the ids
\* issued are as many as the calls).
C2_IdMonotonic ==
    /\ id_counter = add_calls
    /\ \A i \in issued : i < id_counter
    /\ Cardinality(issued) = add_calls

\* Node 0 was deleted and two more nodes were created after it.
C2_Witness ==
    /\ add_calls = 3
    /\ last.op \in {"set_root", "add_above", "add_below"}
    /\ ~has_node(G, 0) /\ has_node(G, 1) /\ has_node(G, 2)

AddedOne(lv, e) ==
    /\ last'.exc = "none"
    /\ G'.node = Append(G.node, id_counter)
    /\ G'.data[id_counter].level = lv
    /\ G'.data[id_counter].text \in NewTexts
    /\ \A n \in NodeSet(G) : G'.data[n] = G.data[n]
    /\ EdgeSet(G') = EdgeSet(G) \cup {e}
    /\ e \notin EdgeSet(G)
    /\ id_counter' = id_counter + 1
    /\ current_id' = id_counter
    /\ root_id' = root_id

Store == <<G, id_counter, root_id, current_id>>

EditOps == {"add_above", "add_below", "delete_node", "save_text"}

\* C7 -- No partial mutation: an edit operation that raises leaves the store
\* exactly as it was, and add_above, add_below and delete_node called with an
\* id that is no node of the store leave nodes, edges, id_counter, current_id
\* and root_id exactly as they were.
C7_NoPartialMutation ==
    [][last'.op \in EditOps /\ (last'.exc # "none" \/ ~last'.had) =>
          UNCHANGED Store]_vars

\* add_above was called on an id that is no node of a non-empty store, and
\* raised.
C7_Witness ==
    /\ OffNode("add_above") /\ last.exc = "KeyError"
    /\ number_of_nodes(G) > 0
    /\ id_counter < MaxAdds

\* C8 as claimed -- delete_node(id) with id not in the store reports a
\* failure to its caller.
C8_AbsentDeleteFails ==
    OffNode("delete_node") => last.exc # "none"

\* C8 as amended -- delete_node(id) with id not in the store returns
\* normally, reporting nothing, and leaves the store as it was.
C8_AbsentDeleteIsNoOp ==
    [][last'.op = "delete_node" /\ ~last'.had =>
          last'.exc = "none" /\ UNCHANGED Store]_vars

\* delete_node was called on an id that is no node of a non-empty store.
C8_Witness ==
    /\ OffNode("delete_node") /\ last.nid # None
    /\ number_of_nodes(G) > 0

\* C9 as claimed -- a failed import leaves the prior store untouched:
\* whenever the import step ends in the error branch, nodes, edges,
\* id_counter, current_id and root_id are exactly what they were before it.
C9_FailedImportUntouched ==
    [][last'.op = "import" /\ last'.exc # "none" => UNCHANGED Store]_vars

\* The step is a delete_node of the current node that leaves a node behind.
DeletesCurrent ==
    /\ last'.op = "delete_node" /\ last'.had
    /\ last'.nid = current_id
    /\ number_of_nodes(G') > 0

\* C10 as claimed -- whenever delete_node removes the current node and a node
\* remains, the new current_id is the minimum remaining id, in every store,
\* built by edits or loaded.
C10_NewCurrentIsMin ==
    [][DeletesCurrent => current_id' = Min(NodeSet(G'))]_vars

\* C10 as amended -- whenever delete_node removes the current node and a node
\* remains, the new current_id is the first remaining node in the store's
\* insertion order; that is the minimum remaining id in a store built by
\* edit operations alone.
C10_NewCurrentIsFirst ==
    [][DeletesCurrent =>
          /\ current_id' = G'.node[1]
          /\ ~imported => current_id' = Min(NodeSet(G'))]_vars

\* The current node of a loaded store was deleted and the new current node
\* is not the one with the least id.
C10_Witness ==
    /\ OnNode("delete_node") /\ last.nid = last.cur
    /\ imported
    /\ number_of_nodes(G) > 1
    /\ current_id = G.node[1]
    /\ current_id # Min(NodeSet(G))

\* C11 -- Root creation happens only on an empty store: in every session
\* driven through the page (create root, add above / below, delete current
\* node, import), set_root runs only when the store has no nodes.
C11_RootOnlyOnEmptyStore == run.set_root_at \in {None, 0}

\* The node ids and the edges that a document lists.
ListedNodes(d) ==
    {get(d, "nodes", <<>>)[i].id : i \in DOMAIN get(d, "nodes", <<>>)}

ListedEdges(d) ==
    {<<get(d, "edges", <<>>)[i].source, get(d, "edges", <<>>)[i].target>> :
        i \in DOMAIN get(d, "edges", <<>>)}

\* The store g holds the node entry n of a document: its text, and its level
\* or 0 if the entry has none.
HoldsEntry(g, n) ==
    /\ has_data(g, n.id)
    /\ g.data[n.id].text = n.text
    /\ g.data[n.id].level = (IF "level" \in DOMAIN n THEN n.level ELSE 0)

\* C12 -- Import is a wholesale replace with defaults: after load_from_dict(d)
\* succeeds, the nodes and the edges of the store are exactly those that d
\* lists, whatever the store held before; every listed node has the text of
\* its entry and its level, or level 0 if the entry has none; and id_counter,
\* current_id and root_id are those of d, or 0, None and None where d has no
\* such key.
C12_ImportIsExactlyDoc ==
    [][\A f \in Files :
          (f.kind = "object" /\ Import(f) /\ last'.exc = "none")
          => /\ NodeSet(G') = ListedNodes(f.data)
             /\ EdgeSet(G') = ListedEdges(f.data)
             /\ \A i \in DOMAIN get(f.data, "nodes", <<>>) :
                    HoldsEntry(G', f.data.nodes[i])
             /\ id_counter' = (IF "id_counter" \in DOMAIN f.data
                               THEN f.data.id_counter ELSE 0)
             /\ current_id' = (IF "current_id" \in DOMAIN f.data
                               THEN f.data.current_id ELSE None)
             /\ root_id' = (IF "root_id" \in DOMAIN f.data
                            THEN f.data.root_id ELSE None)]_vars

\* C13 -- At every render of the graph, every node of the store is drawn,
\* exactly one of them with borderWidth 3, and that one is the node whose id
\* is current_id; every other node is drawn with borderWidth 1.  This holds
\* after any sequence of interactions, uploads included.
C13_OneThickBorder ==
    ui.render # NoRender =>
        /\ {ui.render[i].id : i \in DOMAIN ui.render} = NodeSet(G)
        /\ \E i \in DOMAIN ui.render :
              /\ ui.render[i].id = current_id
              /\ ui.render[i].borderWidth = 3
              /\ \A j \in DOMAIN ui.render \ {i} : ui.render[j].borderWidth = 1

\* The graph is drawn in a run that has loaded a document whose current_id is
\* no node of it.
C13_Witness ==
    /\ ui.render # NoRender
    /\ ui.uploaded # NoFile
    /\ ui.fresh
    /\ get(ui.uploaded.data, "current_id", None) = 1
    /\ ~has_node(G, 1)
    /\ current_id = 0

\* The node ids and the edges of to_dict() on the graph g, in the order of
\* the document's "nodes" and "edges" lists.
ExportedNodes(g) ==
    LET d == to_dict([SS EXCEPT !.G = g]).doc
    IN  [i \in DOMAIN d.nodes |-> d.nodes[i].id]

ExportedEdges(g) ==
    LET d == to_dict([SS EXCEPT !.G = g]).doc
    IN  [i \in DOMAIN d.edges |-> <<d.edges[i].source, d.edges[i].target>>]

\* The sequence es without the edges from or to the node n.
RECURSIVE WithoutNode(_, _)
WithoutNode(es, n) ==
    IF es = <<>> THEN <<>>
    ELSE IF n \in {Head(es)[1], Head(es)[2]} THEN WithoutNode(Tail(es), n)
    ELSE <<Head(es)>> \o WithoutNode(Tail(es), n)

\* The edge the latest add_above / add_below created, between the node c it
\* was called on and the new node.
NewEdge == IF last'.op = "add_above" THEN <<id_counter, last'.nid>>
           ELSE <<last'.nid, id_counter>>

\* The edge list es with e put behind the edges whose source is the source
\* of e or stands before it in the node list ns.
PutBySource(es, e, ns) ==
    LET k == Cardinality({i \in DOMAIN es : Index(ns, es[i][1]) <= Index(ns, e[1])})
    IN  SubSeq(es, 1, k) \o <<e>> \o SubSeq(es, k + 1, Len(es))

\* A step that creates a node; that creates a node and an edge; that deletes
\* a node; any other step of the edit operations.
StepSetRoot == last'.op = "set_root"

StepAdd == last'.op \in {"add_above", "add_below"} /\ last'.exc = "none"

StepDelete == last'.op = "delete_node" /\ last'.had

\* What every step does to the exported node list: a created node goes to
\* the end, a deleted node goes, the others keep their order.
NodesInCreationOrder ==
    /\ StepSetRoot \/ StepAdd
       => ExportedNodes(G') = Append(ExportedNodes(G), id_counter)
    /\ StepDelete => ExportedNodes(G') = Without(ExportedNodes(G), last'.nid)
    /\ ~(StepSetRoot \/ StepAdd \/ StepDelete)
       => ExportedNodes(G') = ExportedNodes(G)

\* C14 -- Export order is creation order: for every store built by set_root,
\* add_above, add_below and delete_node, to_dict lists the surviving nodes in
\* the order they were created and the surviving edges in the order they were
\* created.  Step by step: a created node and a created edge go to the end of
\* their lists, a deletion removes the node and its edges, and what stays
\* keeps its order.
C14_ExportInCreationOrder ==
    [][/\ NodesInCreationOrder
       /\ StepAdd => ExportedEdges(G') = Append(ExportedEdges(G), NewEdge)
       /\ StepDelete
          => ExportedEdges(G') = WithoutNode(ExportedEdges(G), last'.nid)
       /\ ~(StepAdd \/ StepDelete) => ExportedEdges(G') = ExportedEdges(G)]_vars

\* C14, amended -- to_dict lists the surviving nodes in the order they were
\* created, and the surviving edges grouped by their source node: the
\* sources in the order of the node list, the edges of one source in the
\* order they were created.  Step by step: a created node goes to the end of
\* the node list; a created edge goes behind the edges of its own source and
\* of the sources before it, ahead of the edges of every later source.
C14_ExportInStoreOrder ==
    [][/\ NodesInCreationOrder
       /\ StepAdd
          => ExportedEdges(G')
             = PutBySource(ExportedEdges(G), NewEdge, ExportedNodes(G'))
       /\ StepDelete
          => ExportedEdges(G') = WithoutNode(ExportedEdges(G), last'.nid)
       /\ ~(StepAdd \/ StepDelete) => ExportedEdges(G') = ExportedEdges(G)]_vars

\* add_below(0) has created the edge (0, 2) after the edge (1, 0) and
\* to_dict lists it first.
C14_Witness ==
    /\ last.op = "add_below" /\ last.nid = 0 /\ last.exc = "none"
    /\ ExportedNodes(G) = <<0, 1, 2>>
    /\ ExportedEdges(G) = <<(<<0, 2>>), (<<1, 0>>)>>

\* C15 -- Nodes are destroyed only by delete or by uploading a document: the
\* node that "Add ABOVE" or "Add BELOW" has created is in the store when the
\* runs of that interaction have ended, the rerun that the button triggers
\* included, whether or not the uploader still holds a file.
C15_AddedNodeStays == run.added # None => has_node(G, run.added)

\* The nodes that the nodes of S reach in g by k or fewer further edges.
RECURSIVE ReachedFrom(_, _, _)
ReachedFrom(g, S, k) ==
    IF k = 0 THEN S
    ELSE ReachedFrom(g, S \cup UNION {Range(g.adj[n]) : n \in S}, k - 1)

\* The nodes on a directed cycle of g.
OnCycle(g) ==
    {n \in NodeSet(g) : n \in ReachedFrom(g, Range(g.adj[n]), number_of_nodes(g))}

\* C16 -- Level / edge consistency: in every store built by set_root,
\* add_above, add_below, text edits and delete_node, every edge (u, v) has
\* level(u) = level(v) + 1; the graph has no self-loop, no pair of opposite
\* edges and no directed cycle.
C16_LevelsFollowEdges ==
    /\ \A e \in EdgeSet(G) :
          /\ has_data(G, e[1]) /\ has_data(G, e[2])
          /\ G.data[e[1]].level = G.data[e[2]].level + 1
          /\ e[1] # e[2]
          /\ <<e[2], e[1]>> \notin EdgeSet(G)
    /\ OnCycle(G) = {}

\* add_above has put node 2 above node 1, which add_above had put above
\* node 0: a path of two edges over three levels.
C16_Witness ==
    /\ last.op = "add_above" /\ last.exc = "none"
    /\ EdgeSet(G) = {<<1, 0>>, <<2, 1>>}
    /\ G.data[2].level = 2 /\ G.data[1].level = 1 /\ G.data[0].level = 0

====
